---- MODULE Spec2Model ----
(***************************************************************************)
(* Model of the bughunt-api game server: the game session engine           *)
(* (GameService, the version that draws its pairs from AiService and has   *)
(* handleTimerExpiration), the deferred no-match callbacks it schedules    *)
(* with setTimeout, and the turn timer that calls handleTimerExpiration.   *)
(*                                                                         *)
(* One session is modelled.  Wall-clock fields (startedAt,                 *)
(* currentTurnStartedAt) are left out; endedAt is kept as stamped or not.  *)
(*                                                                         *)
(* The room registry (RoomsService) is modelled beside it, under its own   *)
(* specification RoomsSpec: the rooms map and the calls createRoom,        *)
(* joinRoom, leaveRoom and setPlayerReady.                                 *)
(*                                                                         *)
(* The functions that take their randomness or the content provider's     *)
(* answer as an input (shuffleCards, AiService.generateBugSolutionPairs)   *)
(* are applied to enumerated inputs under CallSpec.  The handlers of       *)
(* RoomsGateway (room:create, room:join, room:leave, room:ready,           *)
(* room:startGame, disconnection) run under GatewaySpec.                   *)
(***************************************************************************)
EXTENDS Integers, Sequences, FiniteSets, TLC

\* ------------------------------------------------------------------ bounds
\* Number of bug/solution pairs of the modelled session (config.numberOfPairs).
NumPairs == 2
\* Turn switches are explored while turnNumber is below this; a deferred
\* no-match callback is scheduled, and a timer expiration switches the turn,
\* only while the switch of every outstanding callback is still within it, so
\* that a scheduled callback can always run.
MaxTurn == 3
\* Number of codes generateRoomCode draws at most in the createRoom calls
\* explored (the source draws until a code is free).
MaxDraws == 2
\* Largest number of pairs asked of generateBugSolutionPairs, and longest
\* array the content provider answers with; one more than the built-in
\* content holds.
MaxCount == 10
\* Sessions started from rooms.
MaxGames == 1

\* ------------------------------------------------------------- data model
\* The two session players, in the order of the players array given to
\* createGame; Object.keys(game.players) keeps this insertion order.
PlayerIds == <<"p1", "p2">>
Players == {PlayerIds[i] : i \in 1..Len(PlayerIds)}

NumCards == 2 * NumPairs
\* card_0 .. card_{2*NumPairs-1}
CardIds == 0..(NumCards - 1)
\* A card id that is not on the board.
UnknownCard == NumCards
\* null / undefined in a pending slot (both are falsy in the source).
Nil == -1

Difficulties == {"easy", "medium", "hard"}
\* The tiers in the order of the keys of fallbackContent and scoreMap.
TierOrder == <<"easy", "medium", "hard">>

\* isCurrentTurn is a JavaScript property: true, false, or never assigned.
Undefined == "undefined"
True == "true"
False == "false"

VARIABLES
    game,      \* the GameState record held in GameService.games
    timeouts,  \* setTimeout callbacks scheduled by the noMatch branch, FIFO
    timer,     \* the session's turn timer: Idle, or the deadline armed
    rooms,     \* RoomsService.rooms: the live rooms by room code
    call,      \* a function call under CallSpec: its inputs and its result
    games,     \* the sessions createGame has stored for rooms, oldest first
    closed     \* the connections whose socket has closed

vars == <<game, timeouts, timer, rooms, call, games, closed>>

\* ------------------------------------------------------------ createGame
\* generateCards with every card naming the card after it.
generateCards_NextCard(pairs) ==
    [c \in CardIds |->
        [type |-> IF c % 2 = 0 THEN "bug" ELSE "solution",
         difficulty |-> pairs[(c \div 2) + 1],
         isFlipped |-> FALSE,
         isMatched |-> FALSE,
         matchingCardId |-> (c + 1) % NumCards]]

\* generateCards: pair k becomes card_{2k} (bug) and card_{2k+1} (solution),
\* each naming the other in matchingCardId.
generateCards(pairs) ==
    [c \in CardIds |->
        [type |-> IF c % 2 = 0 THEN "bug" ELSE "solution",
         difficulty |-> pairs[(c \div 2) + 1],
         isFlipped |-> FALSE,
         isMatched |-> FALSE,
         matchingCardId |-> IF c % 2 = 0 THEN c + 1 ELSE c - 1]]

\* createGame: the player records are built without isCurrentTurn.
createGame(players, pairs) ==
    [status |-> "playing",
     cards |-> generateCards(pairs),
     players |-> [p \in Players |->
                    [score |-> 0, matchesFound |-> 0, isCurrentTurn |-> Undefined]],
     currentTurn |-> players[1],
     turnNumber |-> 1,
     firstFlippedCard |-> Nil,
     secondFlippedCard |-> Nil,
     endedAt |-> FALSE]

\* --------------------------------------------------------- handleCardFlip
\* "Validate it's the player's turn": the caller is refused.
NotPlayersTurn(g, playerId) == g.currentTurn # playerId

\* CardRefused without the isFlipped test.
CardRefused_FlippedAllowed(g, cardId) ==
    \/ cardId \notin CardIds
    \/ g.cards[cardId].isMatched

\* CardRefused without the isMatched test.
CardRefused_MatchedAllowed(g, cardId) ==
    \/ cardId \notin CardIds
    \/ g.cards[cardId].isFlipped

\* "Find the card": no such card, or it is matched or already face up.
CardRefused(g, cardId) ==
    \/ cardId \notin CardIds
    \/ g.cards[cardId].isMatched
    \/ g.cards[cardId].isFlipped

\* "If this is the first card of the turn": the first slot is falsy.
IsFirstFlip(g) == g.firstFlippedCard = Nil

\* firstCard?.matchingCardId === cardId
IsMatch(g, cardId) ==
    /\ g.firstFlippedCard \in CardIds
    /\ g.cards[g.firstFlippedCard].matchingCardId = cardId


\* AllMatched with some() in place of every().
AllMatched_Some(cards) == \E c \in CardIds : cards[c].isMatched

\* game.cards.every((c) => c.isMatched)
AllMatched(cards) == \A c \in CardIds : cards[c].isMatched

\* card.isFlipped = true
FlipUp(g, cardId) == [g EXCEPT !.cards[cardId].isFlipped = TRUE]

\* calculateScore with one value for every tier.
calculateScore_Flat(difficulty) == 10

\* scoreMap[difficulty]
calculateScore(difficulty) ==
    CASE difficulty = "easy" -> 10
      [] difficulty = "medium" -> 20
      [] difficulty = "hard" -> 30

\* MatchFound with the turn handed to the other player.
MatchFound_TurnPassed(g, playerId, cardId) ==
    LET first == g.firstFlippedCard
        cards1 == [g.cards EXCEPT ![cardId].isMatched = TRUE,
                                  ![first].isMatched = TRUE]
        players1 == [g.players EXCEPT
                        ![playerId].matchesFound = @ + 1,
                        ![playerId].score =
                            @ + calculateScore(g.cards[cardId].difficulty)]
        over == AllMatched(cards1)
    IN  [g EXCEPT !.cards = cards1,
                  !.players = players1,
                  !.firstFlippedCard = Nil,
                  !.secondFlippedCard = Nil,
                  !.currentTurn = CHOOSE q \in Players : q # playerId,
                  !.turnNumber = @ + 1,
                  !.status = IF over THEN "finished" ELSE @,
                  !.endedAt = IF over THEN TRUE ELSE @]

\* The match branch, entered with the card face up and recorded as second.
MatchFound(g, playerId, cardId) ==
    LET first == g.firstFlippedCard
        cards1 == [g.cards EXCEPT ![cardId].isMatched = TRUE,
                                  ![first].isMatched = TRUE]
        players1 == [g.players EXCEPT
                        ![playerId].matchesFound = @ + 1,
                        ![playerId].score =
                            @ + calculateScore(g.cards[cardId].difficulty)]
        over == AllMatched(cards1)
    IN  [g EXCEPT !.cards = cards1,
                  !.players = players1,
                  !.firstFlippedCard = Nil,
                  !.secondFlippedCard = Nil,
                  !.status = IF over THEN "finished" ELSE @,
                  !.endedAt = IF over THEN TRUE ELSE @]

\* handleCardFlip on the session: the new record, the action returned, and
\* the callback handed to setTimeout (an empty sequence when there is none).
\* A callback keeps the two card objects it closed over.  timedOut records
\* that a timer expiration has switched the turn while the callback was
\* outstanding; the callback itself does not read it.
handleCardFlip(g, playerId, cardId) ==
    IF NotPlayersTurn(g, playerId) \/ CardRefused(g, cardId)
    THEN [game |-> g, action |-> "error", scheduled |-> <<>>]
    ELSE LET g1 == FlipUp(g, cardId) IN
         IF IsFirstFlip(g1)
         THEN [game |-> [g1 EXCEPT !.firstFlippedCard = cardId],
               action |-> "flip", scheduled |-> <<>>]
         ELSE LET g2 == [g1 EXCEPT !.secondFlippedCard = cardId] IN
              IF IsMatch(g2, cardId)
              THEN [game |-> MatchFound(g2, playerId, cardId),
                    action |-> "match", scheduled |-> <<>>]
              ELSE [game |-> g2, action |-> "noMatch",
                    scheduled |-> <<[firstCard |-> g2.firstFlippedCard,
                                     card |-> cardId,
                                     timedOut |-> FALSE]>>]

\* ------------------------------------------------------------ switchTurns
IndexOf(seq, x) == CHOOSE i \in 1..Len(seq) : seq[i] = x

\* NextPlayer without the step to the next index.
NextPlayer_Same(currentTurn) == PlayerIds[IndexOf(PlayerIds, currentTurn)]

\* Object.keys(game.players) is PlayerIds (1-based here).
NextPlayer(currentTurn) ==
    PlayerIds[(IndexOf(PlayerIds, currentTurn) % Len(PlayerIds)) + 1]

switchTurns(g) ==
    LET next == NextPlayer(g.currentTurn) IN
    [g EXCEPT !.currentTurn = next,
              !.turnNumber = @ + 1,
              !.players = [p \in Players |->
                  [g.players[p] EXCEPT
                      !.isCurrentTurn = IF p = next THEN True ELSE False]]]

\* ------------------------------------------------------------- getWinners
\* MaxScore with Math.min in place of Math.max.
MaxScore_Min(g) ==
    CHOOSE m \in {g.players[p].score : p \in Players} :
        \A q \in Players : m <= g.players[q].score

\* Math.max(...players.map((p) => p.score))
MaxScore(g) ==
    CHOOSE m \in {g.players[p].score : p \in Players} :
        \A q \in Players : m >= g.players[q].score

\* The winners in the order of Object.values(game.players), and isTie.
getWinners(g) ==
    LET HasMax(p) == g.players[p].score = MaxScore(g)
        winners == SelectSeq(PlayerIds, HasMax)
    IN  [winners |-> winners, isTie |-> Len(winners) > 1]

\* ------------------------------------------------- the setTimeout callback
\* The body of the setTimeout callback of the noMatch branch.
noMatchTimeout(g, cb) ==
    LET cards1 == [c \in CardIds |->
                     IF c = cb.firstCard \/ c = cb.card
                     THEN [g.cards[c] EXCEPT !.isFlipped = FALSE]
                     ELSE g.cards[c]]
    IN  switchTurns([g EXCEPT !.cards = cards1,
                              !.firstFlippedCard = Nil,
                              !.secondFlippedCard = Nil])

\* -------------------------------------------------- handleTimerExpiration
\* The expiration is ignored unless playerId holds the turn.
TimerIgnored(g, playerId) == g.currentTurn # playerId

\* FlipBackFirst without game.firstFlippedCard = null.
FlipBackFirst_SlotKept(g) ==
    IF g.firstFlippedCard # Nil
    THEN [g EXCEPT !.cards[g.firstFlippedCard].isFlipped = FALSE]
    ELSE g

\* "If there's a flipped card, flip it back": only the first slot is looked at.
FlipBackFirst(g) ==
    IF g.firstFlippedCard # Nil
    THEN [g EXCEPT !.cards[g.firstFlippedCard].isFlipped = FALSE,
                   !.firstFlippedCard = Nil]
    ELSE g

handleTimerExpiration(g, playerId) ==
    IF TimerIgnored(g, playerId)
    THEN [game |-> g, action |-> "null"]
    ELSE [game |-> switchTurns(FlipBackFirst(g)), action |-> "timeUp"]

\* ------------------------------------------------------------ turn timer
\* One timer per session: Idle, or armed for a player.  No operation of
\* GameService cancels it.  stale records that the session has changed since
\* the deadline was armed.
Idle == [armed |-> FALSE, playerId |-> "none", stale |-> FALSE]

AfterMutation(t) == IF t.armed THEN [t EXCEPT !.stale = TRUE] ELSE t

\* The callbacks that were outstanding when a timer expiration switched the
\* turn.
AfterTimeUp(cbs) == [i \in 1..Len(cbs) |-> [cbs[i] EXCEPT !.timedOut = TRUE]]

\* ------------------------------------------------------------ shuffleCards
\* The card list generateCards hands to shuffleCards: pair k at the indices
\* 2k and 2k+1 (0-based; sequences here are 1-based), position counting up
\* from 0.
CardList(pairs) ==
    [i \in 1..(2 * Len(pairs)) |->
        [id |-> i - 1,
         type |-> IF (i - 1) % 2 = 0 THEN "bug" ELSE "solution",
         difficulty |-> pairs[((i - 1) \div 2) + 1],
         matchingCardId |-> IF (i - 1) % 2 = 0 THEN i ELSE i - 2,
         position |-> i - 1]]

\* The values Math.floor(Math.random() * (i + 1)) may take for i = n-1 .. 1.
ShuffleDraws(n) == {js \in [1..(n - 1) -> 0..(n - 1)] : \A i \in 1..(n - 1) : js[i] <= i}

\* The loop of shuffleArray from index i down: swap i and js[i].
RECURSIVE SwapFrom(_, _, _)
SwapFrom(a, js, i) ==
    IF i <= 0 THEN a
    ELSE SwapFrom([a EXCEPT ![i + 1] = a[js[i] + 1], ![js[i] + 1] = a[i + 1]],
                  js, i - 1)

\* The loop of shuffleCards from index i down: swap i and js[i], then write
\* position of the card now at i and of the card now at js[i].
RECURSIVE ShuffleFrom(_, _, _)
ShuffleFrom(a, js, i) ==
    IF i <= 0 THEN a
    ELSE LET j == js[i]
             swapped == [a EXCEPT ![i + 1] = a[j + 1], ![j + 1] = a[i + 1]]
         IN  ShuffleFrom([swapped EXCEPT ![i + 1].position = i,
                                         ![j + 1].position = j],
                         js, i - 1)

\* shuffleCards without "Update positions after shuffle".
shuffleCards_PositionsKept(cards, js) == SwapFrom(cards, js, Len(cards) - 1)

shuffleCards(cards, js) == ShuffleFrom(cards, js, Len(cards) - 1)

\* -------------------------------------------------------------- AiService
\* fallbackContent holds three pairs for each tier.
FallbackPerTier == 3

\* The pairs getFallbackPairs collects, tier by tier.
FallbackPairs ==
    [i \in 1..(3 * FallbackPerTier) |->
        [difficulty |-> TierOrder[((i - 1) \div FallbackPerTier) + 1],
         item |-> ((i - 1) % FallbackPerTier) + 1]]

\* shuffleArray: Fisher-Yates with the draws js.
shuffleArray(array, js) == SwapFrom(array, js, Len(array) - 1)

\* The draws of shuffleArray that are explored, four for a list of n.
FallbackDraws(n) == {[i \in 1..(n - 1) |-> (i * k) % (i + 1)] : k \in 0..3}

\* array.slice(0, count) for count >= 0
Slice(array, count) ==
    SubSeq(array, 1, IF count < Len(array) THEN count ELSE Len(array))

getFallbackPairs(count, js) == Slice(shuffleArray(FallbackPairs, js), count)

\* What the content provider does: the request throws, the answer does not
\* parse to an array, or it parses to an array of some length.
ProviderAnswers ==
    {[kind |-> k, pairs |-> <<>>] : k \in {"throws", "notArray"}}
    \cup {[kind |-> "array",
           pairs |-> [i \in 1..n |-> [difficulty |-> "easy", item |-> 0]]] :
          n \in 0..MaxCount}

\* "Validate AI response format"
InvalidAnswer(answer, count) ==
    answer.kind # "array" \/ Len(answer.pairs) # count

generateBugSolutionPairs(count, answer, js) ==
    IF answer.kind = "throws" \/ InvalidAnswer(answer, count)
    THEN getFallbackPairs(count, js)
    ELSE answer.pairs

\* ----------------------------------------------------------- RoomsService
\* The room codes the generator draws in the runs explored.
Codes == {"AAAAAA", "BBBBBB"}
\* Socket ids of the connected clients.
Conns == {"s1", "s2", "s3"}
Nicknames == {"ann", "bob", "cy"}

\* maxPlayers: 2
MaxPlayers == 2

\* new Map()
NoRooms == [c \in {} |-> c]

\* generateRoomCode without the test of the do-while loop.
generateRoomCode_FirstDraw(rs, draws) == draws[1]

\* generateRoomCode: codes are drawn until one is not a key of the map; draws
\* is the sequence of codes Math.random yields.
generateRoomCode(rs, draws) ==
    LET i == CHOOSE i \in 1..Len(draws) :
                 /\ draws[i] \notin DOMAIN rs
                 /\ \A j \in 1..(i - 1) : draws[j] \in DOMAIN rs
    IN  draws[i]

\* The loop of generateRoomCode ends within the draws given.
Terminates(rs, draws) == \E i \in 1..Len(draws) : draws[i] \notin DOMAIN rs

\* this.rooms.set(roomCode, room)
SetRoom(rs, code, room) ==
    [c \in DOMAIN rs \cup {code} |-> IF c = code THEN room ELSE rs[c]]

\* DeleteRoom without the delete.
DeleteRoom_Keep(rs, code) == rs

\* this.rooms.delete(roomCode)
DeleteRoom(rs, code) == [c \in DOMAIN rs \ {code} |-> rs[c]]

\* createRoom: the room returned and the map after it.  players is the
\* players object as the sequence of its values, in key insertion order.
createRoom(rs, hostId, nickname, draws) ==
    LET roomCode == generateRoomCode(rs, draws)
        host == [id |-> hostId, nickname |-> nickname,
                 isReady |-> FALSE, isHost |-> TRUE]
        room == [roomCode |-> roomCode, hostId |-> hostId,
                 players |-> <<host>>, status |-> "waiting",
                 maxPlayers |-> MaxPlayers]
    IN  [rooms |-> SetRoom(rs, roomCode, room), room |-> room]

\* playerId in room.players
IsMember(room, playerId) ==
    \E i \in 1..Len(room.players) : room.players[i].id = playerId

\* room.players[player.id] = player: an existing key keeps its place, a new
\* key comes last.
PutPlayer(players, player) ==
    IF \E i \in 1..Len(players) : players[i].id = player.id
    THEN [i \in 1..Len(players) |->
              IF players[i].id = player.id THEN player ELSE players[i]]
    ELSE Append(players, player)

\* RoomFull with > in place of >=.
RoomFull_Over(room) == Len(room.players) > room.maxPlayers

\* Object.keys(room.players).length >= room.maxPlayers
RoomFull(room) == Len(room.players) >= room.maxPlayers

\* NicknameTaken without the test.
NicknameTaken_Never(room, nickname) == FALSE

\* "Check if nickname is already taken in the room"
NicknameTaken(room, nickname) ==
    \E i \in 1..Len(room.players) : room.players[i].nickname = nickname

\* joinRoom: the map after it and whether a room is returned (not null).
joinRoom(rs, roomCode, playerId, nickname) ==
    IF roomCode \notin DOMAIN rs THEN [rooms |-> rs, ok |-> FALSE]
    ELSE IF RoomFull(rs[roomCode]) THEN [rooms |-> rs, ok |-> FALSE]
    ELSE IF NicknameTaken(rs[roomCode], nickname) THEN [rooms |-> rs, ok |-> FALSE]
    ELSE LET player == [id |-> playerId, nickname |-> nickname,
                        isReady |-> FALSE, isHost |-> FALSE]
         IN  [rooms |-> [rs EXCEPT ![roomCode].players = PutPlayer(@, player)],
              ok |-> TRUE]

\* leaveRoom without "If host left, assign new host".
leaveRoom_HostKept(rs, roomCode, playerId) ==
    IF roomCode \notin DOMAIN rs THEN [rooms |-> rs, ok |-> FALSE]
    ELSE LET room == rs[roomCode]
             Stays(pl) == pl.id # playerId
             left == SelectSeq(room.players, Stays)
         IN  IF left = <<>>
             THEN [rooms |-> DeleteRoom(rs, roomCode), ok |-> FALSE]
             ELSE [rooms |-> [rs EXCEPT ![roomCode].players = left],
                   ok |-> TRUE]

\* leaveRoom: the map after it and whether a room is returned (not null).
leaveRoom(rs, roomCode, playerId) ==
    IF roomCode \notin DOMAIN rs THEN [rooms |-> rs, ok |-> FALSE]
    ELSE LET room == rs[roomCode]
             Stays(pl) == pl.id # playerId
             left == SelectSeq(room.players, Stays)
         IN  IF left = <<>>
             THEN [rooms |-> DeleteRoom(rs, roomCode), ok |-> FALSE]
             ELSE IF playerId = room.hostId
             THEN [rooms |-> [rs EXCEPT
                                ![roomCode].players =
                                    [left EXCEPT ![1].isHost = TRUE],
                                ![roomCode].hostId = left[1].id],
                   ok |-> TRUE]
             ELSE [rooms |-> [rs EXCEPT ![roomCode].players = left],
                   ok |-> TRUE]

\* setPlayerReady writing the flag of every player of the room.
setPlayerReady_All(rs, roomCode, playerId, isReady) ==
    IF roomCode \notin DOMAIN rs \/ ~IsMember(rs[roomCode], playerId)
    THEN [rooms |-> rs, ok |-> FALSE]
    ELSE [rooms |-> [rs EXCEPT ![roomCode].players =
                        [i \in 1..Len(@) |-> [@[i] EXCEPT !.isReady = isReady]]],
          ok |-> TRUE]

\* setPlayerReady: the map after it and whether a room is returned.
setPlayerReady(rs, roomCode, playerId, isReady) ==
    IF roomCode \notin DOMAIN rs \/ ~IsMember(rs[roomCode], playerId)
    THEN [rooms |-> rs, ok |-> FALSE]
    ELSE [rooms |-> [rs EXCEPT ![roomCode].players =
                        [i \in 1..Len(@) |->
                            IF @[i].id = playerId
                            THEN [@[i] EXCEPT !.isReady = isReady]
                            ELSE @[i]]],
          ok |-> TRUE]

\* ---------------------------------------------------------- specification
\* The content provider's answers that are explored, one difficulty per
\* pair: the tiers in turn starting from medium, and easy for every pair
\* (two pairs of one tier let the players finish level).
PairLists ==
    {[k \in 1..NumPairs |-> TierOrder[(k % 3) + 1]],
     [k \in 1..NumPairs |-> "easy"]}

Init ==
    /\ \E pairs \in PairLists : game = createGame(PlayerIds, pairs)
    /\ timeouts = <<>>
    /\ timer = Idle
    /\ rooms = NoRooms
    /\ call = [op |-> "none"]
    /\ games = <<>>
    /\ closed = {}

\* Who may send game:flipCard: the two players and any other connection.
\* Another connection is refused by the first test of handleCardFlip in every
\* state, so the steps explored are those of the two players.
Callers == Players \cup {"stranger"}
\* What may be sent as cardId.
CardInputs == CardIds \cup {UnknownCard}

\* game:flipCard from a player's connection, for any card id.
FlipCard(playerId, cardId) ==
    \E r \in {handleCardFlip(game, playerId, cardId)} :
    /\ r.scheduled # <<>> => game.turnNumber + Len(timeouts) < MaxTurn
    /\ game' = r.game
    /\ timeouts' = timeouts \o r.scheduled
    /\ timer' = IF r.game # game THEN AfterMutation(timer) ELSE timer
    /\ UNCHANGED <<rooms, call, games, closed>>

\* The oldest setTimeout callback runs (all have the same delay).
ResolveNoMatch ==
    /\ timeouts # <<>>
    /\ game.turnNumber < MaxTurn
    /\ game' = noMatchTimeout(game, Head(timeouts))
    /\ timeouts' = Tail(timeouts)
    /\ timer' = AfterMutation(timer)
    /\ UNCHANGED <<rooms, call, games, closed>>

\* A deadline is armed for the player holding the turn.
ArmTimer ==
    /\ game.status = "playing"
    /\ timer' = [armed |-> TRUE, playerId |-> game.currentTurn, stale |-> FALSE]
    /\ timer' # timer
    /\ UNCHANGED <<game, timeouts, rooms, call, games, closed>>

\* An armed deadline fires: handleTimerExpiration(gameId, playerId).
TimerExpire ==
    LET r == handleTimerExpiration(game, timer.playerId) IN
    /\ timer.armed
    /\ r.action = "timeUp" => game.turnNumber + Len(timeouts) < MaxTurn
    /\ game' = r.game
    /\ timer' = Idle
    /\ timeouts' = IF r.action = "timeUp" THEN AfterTimeUp(timeouts) ELSE timeouts
    /\ UNCHANGED <<rooms, call, games, closed>>

Next ==
    \/ \E p \in Players, c \in CardInputs : FlipCard(p, c)
    \/ ResolveNoMatch
    \/ ArmTimer
    \/ TimerExpire

Spec == Init /\ [][Next]_vars

\* A callback handed to setTimeout runs once its delay has passed.
FairSpec == Spec /\ WF_vars(ResolveNoMatch)

\* ------------------------------------------- specification of the registry
\* The registry starts empty; the session is left as created.
RoomsInit ==
    /\ game = createGame(PlayerIds, [k \in 1..NumPairs |-> "easy"])
    /\ timeouts = <<>>
    /\ timer = Idle
    /\ rooms = NoRooms
    /\ call = [op |-> "none"]
    /\ games = <<>>
    /\ closed = {}

\* The codes the generator would draw in one call, in order.
DrawLists == [1..MaxDraws -> Codes]

\* room:create
CreateRoom(hostId, nickname, draws) ==
    /\ Terminates(rooms, draws)
    /\ rooms' = createRoom(rooms, hostId, nickname, draws).rooms
    /\ UNCHANGED <<game, timeouts, timer, call, games, closed>>

\* room:join
JoinRoom(roomCode, playerId, nickname) ==
    /\ rooms' = joinRoom(rooms, roomCode, playerId, nickname).rooms
    /\ UNCHANGED <<game, timeouts, timer, call, games, closed>>

\* room:leave
LeaveRoom(roomCode, playerId) ==
    /\ rooms' = leaveRoom(rooms, roomCode, playerId).rooms
    /\ UNCHANGED <<game, timeouts, timer, call, games, closed>>

\* room:ready
SetReady(roomCode, playerId, isReady) ==
    /\ rooms' = setPlayerReady(rooms, roomCode, playerId, isReady).rooms
    /\ UNCHANGED <<game, timeouts, timer, call, games, closed>>

RoomsNext ==
    \/ \E h \in Conns, n \in Nicknames, d \in DrawLists : CreateRoom(h, n, d)
    \/ \E c \in Codes, p \in Conns, n \in Nicknames : JoinRoom(c, p, n)
    \/ \E c \in Codes, p \in Conns : LeaveRoom(c, p)
    \/ \E c \in Codes, p \in Conns, b \in BOOLEAN : SetReady(c, p, b)

RoomsSpec == RoomsInit /\ [][RoomsNext]_vars

\* ----------------------------------------------------------- RoomsGateway
\* numberOfPairs in the configuration handleGameStart passes to createGame
StartPairs == 6

\* The nickname each connection sends.
NicknameOf == [c \in Conns |-> IF c = "s1" THEN "ann"
                               ELSE IF c = "s2" THEN "bob" ELSE "cy"]

\* allPlayersReady && Object.keys(room.players).length === 2
AllReady(room) ==
    /\ \A i \in 1..Len(room.players) : room.players[i].isReady
    /\ Len(room.players) = 2

\* handlePlayerReady: the flag is set; when all players of a room of two are
\* ready the room's status becomes playing and game:start is emitted with a
\* gameState written out in the handler.
handlePlayerReady(rs, gs, client, roomCode, isReady) ==
    LET r == setPlayerReady(rs, roomCode, client, isReady) IN
    [rooms |-> IF r.ok /\ AllReady(r.rooms[roomCode])
               THEN [r.rooms EXCEPT ![roomCode].status = "playing"]
               ELSE r.rooms,
     games |-> gs]

\* createGameInRoom with the player listed last going first.
createGameInRoom_LastFirst(roomCode, players, pairs) ==
    [roomCode |-> roomCode,
     status |-> "playing",
     cards |-> 2 * Len(pairs),
     currentTurn |-> players[Len(players)].id,
     playerIds |-> [i \in 1..Len(players) |-> players[i].id]]

\* The session createGame(roomCode, players, config) stores, in the fields
\* the room handlers can be asked about; pairs is what
\* generateBugSolutionPairs returned.
createGameInRoom(roomCode, players, pairs) ==
    [roomCode |-> roomCode,
     status |-> "playing",
     cards |-> 2 * Len(pairs),
     currentTurn |-> players[1].id,
     playerIds |-> [i \in 1..Len(players) |-> players[i].id]]

\* StartRefused without the test that the client is the host.
StartRefused_AnyMember(rs, client, roomCode) ==
    IF roomCode \notin DOMAIN rs THEN TRUE
    ELSE Len(rs[roomCode].players) # 2

\* "Verify room exists and client is host", "Verify we have exactly 2 players"
StartRefused(rs, client, roomCode) ==
    IF roomCode \notin DOMAIN rs THEN TRUE
    ELSE IF rs[roomCode].hostId # client THEN TRUE
    ELSE Len(rs[roomCode].players) # 2

\* handleGameStart: the sessions afterwards and what is emitted, game:error
\* to the client or game:started to the room.
handleGameStart(rs, gs, client, roomCode, answer, js) ==
    IF StartRefused(rs, client, roomCode)
    THEN [games |-> gs, emit |-> [event |-> "game:error", to |-> client]]
    ELSE [games |-> Append(gs, createGameInRoom(roomCode, rs[roomCode].players,
                          generateBugSolutionPairs(StartPairs, answer, js))),
          emit |-> [event |-> "game:started", to |-> roomCode]]

\* handleDisconnect: handleRoomLeave for every room of the socket adapter, in
\* turn, whose registry room holds the client.
RECURSIVE LeaveAll(_, _, _)
LeaveAll(rs, client, codes) ==
    IF codes = {} THEN rs
    ELSE LET c == CHOOSE c \in codes : TRUE
         IN  LeaveAll(IF c \in DOMAIN rs /\ IsMember(rs[c], client)
                      THEN leaveRoom(rs, c, client).rooms ELSE rs,
                      client, codes \ {c})

\* this.server.sockets.adapter.rooms when handleDisconnect runs for client: a
\* socket is put in the adapter room of a code by client.join (room:create,
\* a room:join that succeeds) and taken out by client.leave (room:leave) and
\* when it closes, and the adapter lists a room while a socket is in it.  So
\* the sockets in the adapter room of a code are the room's players whose
\* socket is open, less the closing one once it has been cleared.
AdapterRooms(rs, gone, client, cleared) ==
    {c \in DOMAIN rs :
        \E i \in 1..Len(rs[c].players) :
            /\ rs[c].players[i].id \notin gone
            /\ cleared => rs[c].players[i].id # client}

\* --------------------------------------------- specification of the gateway
\* What the content provider does when a game is started from a room: the
\* request throws, or the answer is an array of the length asked for.
StartAnswers ==
    {a \in ProviderAnswers :
        a.kind = "throws" \/ (a.kind = "array" /\ Len(a.pairs) = StartPairs)}

\* room:create
HandleRoomCreate(client, draws) ==
    /\ client \notin closed
    /\ Terminates(rooms, draws)
    /\ rooms' = createRoom(rooms, client, NicknameOf[client], draws).rooms
    /\ UNCHANGED <<game, timeouts, timer, call, games, closed>>

\* room:join
HandleRoomJoin(client, roomCode) ==
    /\ client \notin closed
    /\ rooms' = joinRoom(rooms, roomCode, client, NicknameOf[client]).rooms
    /\ UNCHANGED <<game, timeouts, timer, call, games, closed>>

\* room:leave
HandleRoomLeave(client, roomCode) ==
    /\ client \notin closed
    /\ rooms' = leaveRoom(rooms, roomCode, client).rooms
    /\ UNCHANGED <<game, timeouts, timer, call, games, closed>>

\* room:ready
HandlePlayerReady(client, roomCode, isReady) ==
    /\ client \notin closed
    /\ rooms' = handlePlayerReady(rooms, games, client, roomCode, isReady).rooms
    /\ games' = handlePlayerReady(rooms, games, client, roomCode, isReady).games
    /\ UNCHANGED <<game, timeouts, timer, call, closed>>

\* The socket of client closes and handleDisconnect runs.  cleared tells
\* whether the socket has been taken out of its adapter rooms by then.
HandleDisconnect(client, cleared) ==
    /\ client \notin closed
    /\ rooms' = LeaveAll(rooms, client, AdapterRooms(rooms, closed, client, cleared))
    /\ closed' = closed \cup {client}
    /\ UNCHANGED <<game, timeouts, timer, call, games>>

\* room:startGame
HandleGameStart(client, roomCode, answer, js) ==
    /\ client \notin closed
    /\ IF StartRefused(rooms, client, roomCode) THEN TRUE
       ELSE Len(games) < MaxGames
    /\ games' = handleGameStart(rooms, games, client, roomCode, answer, js).games
    /\ UNCHANGED <<game, timeouts, timer, call, rooms, closed>>

\* The connections whose requests are explored.
ServerConns == {"s1", "s2"}

GatewayNext ==
    \/ \E p \in ServerConns, d \in DrawLists : HandleRoomCreate(p, d)
    \/ \E p \in ServerConns, c \in Codes : HandleRoomJoin(p, c)
    \/ \E p \in ServerConns, c \in Codes : HandleRoomLeave(p, c)
    \/ \E p \in ServerConns, c \in Codes, b \in BOOLEAN : HandlePlayerReady(p, c, b)
    \/ \E p \in ServerConns, b \in BOOLEAN : HandleDisconnect(p, b)
    \/ \E p \in ServerConns, c \in Codes, answer \in StartAnswers,
          js \in FallbackDraws(Len(FallbackPairs)) :
          HandleGameStart(p, c, answer, js)

GatewaySpec == RoomsInit /\ [][GatewayNext]_vars

\* ------------------------------------------------------------ GameGateway
\* An emitted event: its name and, of its data, the cards it lists and the
\* winners it names.
Event(name, cards, winners) == [event |-> name, cards |-> cards, winners |-> winners]

\* GameGateway.handleCardFlip for a session that exists: what it emits, in
\* order, after gameService.handleCardFlip has returned.  The data are read
\* from the gameState returned.
GameGateway_handleCardFlip(g, client, cardId) ==
    LET r == handleCardFlip(g, client, cardId)
        slots == <<r.game.firstFlippedCard, r.game.secondFlippedCard>>
    IN  CASE r.action = "error" -> <<Event("game:error", <<>>, <<>>)>>
          [] r.action = "flip" -> <<Event("game:cardFlipped", <<cardId>>, <<>>)>>
          [] r.action = "match" ->
                <<Event("game:match", slots, <<>>)>>
                \o (IF r.game.status = "finished"
                    THEN <<Event("game:over", <<>>, getWinners(r.game).winners)>>
                    ELSE <<>>)
          [] r.action = "noMatch" -> <<Event("game:noMatch", slots, <<>>)>>

\* ------------------------------------------------------ GameService.games
\* The ids an operation may name: two sessions of the map and an id that is
\* no key of it.
GameIds == {"g1", "g2"}
UnknownGame == "g0"

\* handleCardFlip as called: this.games.get(gameId), null when there is no
\* such session, else the flip on the session found.
\* flipCardIn acting on every session of the map.
flipCardIn_Every(gs, gameId, playerId, cardId) ==
    [id \in DOMAIN gs |-> handleCardFlip(gs[id], playerId, cardId).game]

flipCardIn(gs, gameId, playerId, cardId) ==
    IF gameId \notin DOMAIN gs THEN gs
    ELSE [gs EXCEPT ![gameId] = handleCardFlip(@, playerId, cardId).game]

\* The deferred callback of a noMatch in session gameId: it holds the
\* session object it was scheduled for.
noMatchTimeoutIn(gs, gameId, cb) ==
    [gs EXCEPT ![gameId] = noMatchTimeout(@, cb)]

\* handleTimerExpiration as called: this.games.get(gameId).
handleTimerExpirationIn(gs, gameId, playerId) ==
    IF gameId \notin DOMAIN gs THEN gs
    ELSE [gs EXCEPT ![gameId] = handleTimerExpiration(@, playerId).game]

\* ------------------------------- specification of a session beside a room
\* The room code of the room operations explored beside the session: s1
\* opens the room, s2 joins and leaves it.
ServerCode == "AAAAAA"

\* handleTimerExpiration(gameId, playerId) called for the session; GameService
\* arms no timer, the call comes from outside it.
ExpireTurn(playerId) ==
    LET r == handleTimerExpiration(game, playerId) IN
    /\ r.action = "timeUp"
    /\ game.turnNumber + Len(timeouts) < MaxTurn
    /\ game' = r.game
    /\ timeouts' = AfterTimeUp(timeouts)
    /\ UNCHANGED <<timer, rooms, call, games, closed>>

SessionStep ==
    \/ \E p \in Players, c \in CardInputs : FlipCard(p, c)
    \/ ResolveNoMatch
    \/ \E p \in Players : ExpireTurn(p)

RoomStep ==
    \/ HandleRoomCreate("s1", [i \in 1..MaxDraws |-> ServerCode])
    \/ HandleRoomJoin("s2", ServerCode)
    \/ HandleRoomLeave("s2", ServerCode)
    \/ \E p \in ServerConns : HandlePlayerReady(p, ServerCode, TRUE)
    \/ \E b \in BOOLEAN : HandleDisconnect("s2", b)

ServerNext == SessionStep \/ RoomStep

ServerSpec == RoomsInit /\ [][ServerNext]_vars

\* ------------------------------------ specification of a faultless player
\* The starting player alone flips: an unmatched card that is face down, then
\* the card it names in matchingCardId.  The session is created from any
\* list of tiers.
PerfectInit ==
    /\ \E pairs \in [1..NumPairs -> Difficulties] :
           game = createGame(PlayerIds, pairs)
    /\ timeouts = <<>>
    /\ timer = Idle
    /\ rooms = NoRooms
    /\ call = [op |-> "none"]
    /\ games = <<>>
    /\ closed = {}

FlipUnmatched(cardId) ==
    /\ game.status = "playing"
    /\ game.firstFlippedCard = Nil
    /\ ~game.cards[cardId].isMatched
    /\ ~game.cards[cardId].isFlipped
    /\ FlipCard(PlayerIds[1], cardId)

FlipItsMatch ==
    /\ game.status = "playing"
    /\ game.firstFlippedCard # Nil
    /\ FlipCard(PlayerIds[1], game.cards[game.firstFlippedCard].matchingCardId)

PerfectNext == (\E c \in CardIds : FlipUnmatched(c)) \/ FlipItsMatch

\* The player goes on flipping while a flip is possible.
PerfectSpec == PerfectInit /\ [][PerfectNext]_vars /\ WF_vars(PerfectNext)

\* ------------------------------------------ specification of single calls
\* A call of shuffleCards on a list generateCards builds, or a call of
\* generateBugSolutionPairs, with the random draws and the provider's answer
\* it will meet.
CallInit ==
    /\ game = createGame(PlayerIds, [k \in 1..NumPairs |-> "easy"])
    /\ timeouts = <<>>
    /\ timer = Idle
    /\ rooms = NoRooms
    /\ games = <<>>
    /\ closed = {}
    /\ \/ \E pairs \in [1..NumPairs -> Difficulties], js \in ShuffleDraws(NumCards) :
             call = [op |-> "shuffleCards", cards |-> CardList(pairs),
                     js |-> js, returned |-> FALSE, result |-> <<>>]
       \/ \E count \in 0..MaxCount, answer \in ProviderAnswers,
             js \in FallbackDraws(Len(FallbackPairs)) :
             call = [op |-> "generateBugSolutionPairs", count |-> count,
                     answer |-> answer, js |-> js, returned |-> FALSE, result |-> <<>>]

ShuffleReturns ==
    /\ call.op = "shuffleCards"
    /\ ~call.returned
    /\ call' = [call EXCEPT !.returned = TRUE,
                          !.result = shuffleCards(call.cards, call.js)]
    /\ UNCHANGED <<game, timeouts, timer, rooms, games, closed>>

GenerateReturns ==
    /\ call.op = "generateBugSolutionPairs"
    /\ ~call.returned
    /\ call' = [call EXCEPT !.returned = TRUE, !.result =
                    generateBugSolutionPairs(call.count, call.answer, call.js)]
    /\ UNCHANGED <<game, timeouts, timer, rooms, games, closed>>

CallNext == ShuffleReturns \/ GenerateReturns

CallSpec == CallInit /\ [][CallNext]_vars

\* ================================================================ claims
Unresolved(g) == {c \in CardIds : g.cards[c].isFlipped /\ ~g.cards[c].isMatched}

HoldersOfTurn(g) == {p \in Players : g.players[p].isCurrentTurn = True}

\* C1: a timer expiration armed before a mutating operation and firing after
\* it changes nothing of the session.
C1_StaleExpirationChangesNothing ==
    [][(timer.armed /\ timer.stale /\ TimerExpire) => game' = game]_vars

\* C2: a turn is ended by one switch only: when a timer expiration for the
\* current player has switched the turn while a deferred no-match callback
\* was outstanding, the callback, when it runs, leaves turnNumber and
\* currentTurn as the expiration left them (one higher, the opponent).
C2_TurnEndedOnce ==
    [][(ResolveNoMatch /\ Head(timeouts).timedOut) =>
           /\ game'.turnNumber = game.turnNumber
           /\ game'.currentTurn = game.currentTurn]_vars

\* C3: at most one deferred no-match callback is outstanding.
C3_OneDeferredResolution == Len(timeouts) <= 1

\* C4: while the session is playing exactly one player has isCurrentTurn = true.
C4_OneCurrentTurnFlag ==
    game.status = "playing" => Cardinality(HoldersOfTurn(game)) = 1

\* C5: at most two cards are flipped and unresolved.
C5_AtMostTwoUnresolved == Cardinality(Unresolved(game)) <= 2

\* C10: once the session is finished no step changes it.
C10_FinishedIsTerminal ==
    [][game.status = "finished" => game' = game]_vars

C7_RejectionChangesNothing ==
    \A p \in Callers, c \in CardInputs :
        (\/ p # game.currentTurn
         \/ c \notin CardIds
         \/ game.cards[c].isMatched
         \/ game.cards[c].isFlipped)
        => LET r == handleCardFlip(game, p, c) IN
            /\ r.action = "error"
            /\ r.game = game
            /\ r.scheduled = <<>>

\* A playing session in which each kind of rejection is returned: to the
\* holder of the turn for a flipped card, a matched card and an unknown card,
\* and to the other player for a card the holder could flip.
C7_Witness ==
    /\ game.status = "playing"
    /\ \E c \in Unresolved(game) :
          handleCardFlip(game, game.currentTurn, c).action = "error"
    /\ \E c \in CardIds :
          /\ game.cards[c].isMatched
          /\ handleCardFlip(game, game.currentTurn, c).action = "error"
    /\ handleCardFlip(game, game.currentTurn, UnknownCard).action = "error"
    /\ \E c \in CardIds :
          /\ handleCardFlip(game, game.currentTurn, c).action = "flip"
          /\ handleCardFlip(game, NextPlayer(game.currentTurn), c).action = "error"

\* C8: the session is finished exactly when every card is matched, and
\* endedAt is stamped exactly then.
C8_FinishedIffAllMatched ==
    /\ (game.status = "finished") <=> (\A c \in CardIds : game.cards[c].isMatched)
    /\ game.endedAt <=> (game.status = "finished")

\* The last pair has been matched.
C8_Witness ==
    /\ game.status = "finished"
    /\ game.endedAt
    /\ \A c \in CardIds : game.cards[c].isMatched

\* C9: on a finished session every flipCard, by any caller on any card id,
\* returns error and changes nothing.
C9_FinishedRejectsFlips ==
    game.status = "finished" =>
        \A p \in Callers, c \in CardInputs :
            LET r == handleCardFlip(game, p, c) IN
                /\ r.action = "error"
                /\ r.game = game
                /\ r.scheduled = <<>>

\* A finished session in which a matched card lies face down again, so that
\* only its isMatched flag refuses it.
C9_Witness ==
    /\ game.status = "finished"
    /\ \E c \in CardIds :
          /\ game.cards[c].isMatched /\ ~game.cards[c].isFlipped
          /\ handleCardFlip(game, game.currentTurn, c).action = "error"

\* C11: a deferred no-match callback that runs while both pending slots are
\* empty changes nothing: it flips no card and does not switch the turn.
C11_ResolutionWithoutPendingIsNoOp ==
    [][(/\ ResolveNoMatch
        /\ game.firstFlippedCard = Nil
        /\ game.secondFlippedCard = Nil) => game' = game]_vars

\* The session as flipCard(p, b) has left it on returning noMatch for the
\* cards a and b in turn n: both are face up and in the pending slots, their
\* callback is outstanding, and no timer expiration has switched the turn.
NoMatchReturned(a, b, n, p) ==
    /\ game.firstFlippedCard = a
    /\ game.secondFlippedCard = b
    /\ {a, b} \subseteq Unresolved(game)
    /\ \E i \in 1..Len(timeouts) :
          /\ timeouts[i].firstCard = a
          /\ timeouts[i].card = b
          /\ ~timeouts[i].timedOut
    /\ game.currentTurn = p
    /\ game.turnNumber = n

\* That mismatch resolved: both cards face down, no card pending, the other
\* player to move in turn n + 1.
NoMatchResolved(a, b, n, p) ==
    /\ ~game.cards[a].isFlipped
    /\ ~game.cards[b].isFlipped
    /\ game.firstFlippedCard = Nil
    /\ game.secondFlippedCard = Nil
    /\ game.currentTurn # p
    /\ game.currentTurn \in Players
    /\ game.turnNumber = n + 1

\* C12: a flipCard that returns noMatch leaves the two cards flipped and
\* pending and the turn as it was, and is eventually followed by a state in
\* which both cards are unflipped, both slots are empty, the other player
\* holds the turn and turnNumber is one higher than at the noMatch.
C12_NoMatchEventuallyResolved ==
    /\ [](\A p \in Callers, c \in CardInputs :
            LET r == handleCardFlip(game, p, c) IN
            r.action = "noMatch" =>
                /\ r.game.firstFlippedCard = game.firstFlippedCard
                /\ r.game.secondFlippedCard = c
                /\ {game.firstFlippedCard, c} \subseteq Unresolved(r.game)
                /\ r.game.currentTurn = game.currentTurn
                /\ r.game.turnNumber = game.turnNumber)
    /\ \A a \in CardIds, b \in CardIds, n \in 1..MaxTurn, p \in Players :
          [](NoMatchReturned(a, b, n, p) => <>NoMatchResolved(a, b, n, p))

\* C13: a timer expiration for the player holding the turn unflips every card
\* that was flipped and unresolved, empties both pending slots, gives the
\* turn to the other player and raises turnNumber by one.
C13_ExpirationResolvesLikeNoMatch ==
    LET r == handleTimerExpiration(game, game.currentTurn) IN
        /\ r.action = "timeUp"
        /\ \A c \in Unresolved(game) : ~r.game.cards[c].isFlipped
        /\ r.game.firstFlippedCard = Nil
        /\ r.game.secondFlippedCard = Nil
        /\ r.game.currentTurn # game.currentTurn
        /\ r.game.currentTurn \in Players
        /\ r.game.turnNumber = game.turnNumber + 1

\* C14: a flipCard that returns match without finishing the session leaves
\* currentTurn, turnNumber and every player's isCurrentTurn as they were, and
\* the player who matched is the one to move.
C14_MatchKeepsTurn ==
    \A p \in Callers, c \in CardInputs :
        LET r == handleCardFlip(game, p, c) IN
        (r.action = "match" /\ r.game.status # "finished") =>
            /\ r.game.currentTurn = game.currentTurn
            /\ r.game.currentTurn = p
            /\ r.game.turnNumber = game.turnNumber
            /\ \A q \in Players :
                  r.game.players[q].isCurrentTurn = game.players[q].isCurrentTurn

\* A match has been made in the first turn and the session goes on: the
\* player who made it still holds the turn.
C14_Witness ==
    /\ game.status = "playing"
    /\ game.turnNumber = 1
    /\ game.players[game.currentTurn].matchesFound = 1
    /\ \E c \in CardIds : game.cards[c].isMatched
    /\ \E c \in CardIds : handleCardFlip(game, game.currentTurn, c).action = "flip"

\* Points of a tier, as the specification lists them.
TierPoints(d) == IF d = "easy" THEN 10 ELSE IF d = "medium" THEN 20 ELSE 30

\* C15: on every match the acting player's score rises by 10, 20 or 30 for an
\* easy, medium or hard pair and matchesFound by one, both cards of the pair
\* are matched, both pending slots are cleared, and the other player's score
\* and matchesFound are unchanged.
C15_MatchCredits ==
    \A p \in Callers, c \in CardInputs :
        LET r == handleCardFlip(game, p, c)
            f == game.firstFlippedCard
        IN  r.action = "match" =>
            /\ game.cards[f].difficulty = game.cards[c].difficulty
            /\ game.cards[c].difficulty \in Difficulties
            /\ r.game.players[p].score =
                    game.players[p].score + TierPoints(game.cards[c].difficulty)
            /\ r.game.players[p].matchesFound = game.players[p].matchesFound + 1
            /\ r.game.cards[f].isMatched
            /\ r.game.cards[c].isMatched
            /\ r.game.firstFlippedCard = Nil
            /\ r.game.secondFlippedCard = Nil
            /\ \A q \in Players \ {p} :
                  /\ r.game.players[q].score = game.players[q].score
                  /\ r.game.players[q].matchesFound = game.players[q].matchesFound

\* A hard pair has been matched by one player and nothing else scored.
C15_Witness ==
    \E p \in Players :
        /\ game.players[p].matchesFound = 1
        /\ game.players[p].score = 30
        /\ \A q \in Players \ {p} :
              game.players[q].score = 0 /\ game.players[q].matchesFound = 0
        /\ \E c \in CardIds :
              game.cards[c].isMatched /\ game.cards[c].difficulty = "hard"
        /\ game.firstFlippedCard = Nil
        /\ game.secondFlippedCard = Nil

\* What a turn switch makes of g in g2.
Switched(g, g2) ==
    /\ g2.currentTurn \in Players \ {g.currentTurn}
    /\ g2.turnNumber = g.turnNumber + 1
    /\ \A q \in Players :
          g2.players[q].isCurrentTurn =
              IF q = g2.currentTurn THEN True ELSE False

\* C16: every turn switch gives the turn to the other of the two players,
\* raises turnNumber by one and sets isCurrentTurn true for the new holder
\* and false for the other; two switches in a row return the turn.
C16_SwitchIsRoundRobin ==
    /\ [](/\ Switched(game, switchTurns(game))
          /\ switchTurns(switchTurns(game)).currentTurn = game.currentTurn
          /\ switchTurns(switchTurns(game)).turnNumber = game.turnNumber + 2)
    /\ [][(\/ game'.currentTurn # game.currentTurn
           \/ game'.turnNumber # game.turnNumber) => Switched(game, game')]_vars

\* The turn has been switched twice and is back with the first player.
C16_Witness ==
    /\ game.turnNumber = 3
    /\ game.currentTurn = PlayerIds[1]
    /\ game.players[PlayerIds[1]].isCurrentTurn = True
    /\ game.players[PlayerIds[2]].isCurrentTurn = False

\* The players no other player outscores.
Leaders(g) ==
    {p \in Players : \A q \in Players : g.players[p].score >= g.players[q].score}

\* C17: getWinners returns exactly the players whose score is the maximum,
\* each once, and isTie is true exactly when more than one player has it.
C17_WinnersAreLeaders ==
    LET r == getWinners(game) IN
        /\ {r.winners[i] : i \in 1..Len(r.winners)} = Leaders(game)
        /\ Len(r.winners) = Cardinality(Leaders(game))
        /\ r.isTie <=> (Cardinality(Leaders(game)) > 1)

\* A finished session that both players leave with the same score, above
\* zero: both are winners and it is a tie.
C17_Witness ==
    /\ game.status = "finished"
    /\ game.players[PlayerIds[1]].score = game.players[PlayerIds[2]].score
    /\ game.players[PlayerIds[1]].score > 0
    /\ getWinners(game) = [winners |-> PlayerIds, isTie |-> TRUE]

\* The players of a room that carry isHost = true.
Hosts(room) == {i \in 1..Len(room.players) : room.players[i].isHost}

\* C18: every live room has exactly one player with isHost = true.
C18_OneHostPerRoom ==
    \A c \in DOMAIN rooms : Cardinality(Hosts(rooms[c])) = 1

\* C19: every live room has at most maxPlayers = 2 players.
C19_AtMostMaxPlayers ==
    \A c \in DOMAIN rooms :
        /\ rooms[c].maxPlayers = 2
        /\ Len(rooms[c].players) <= 2
        /\ \A i, j \in 1..Len(rooms[c].players) :
              rooms[c].players[i].id = rooms[c].players[j].id => i = j

\* A room is full and a join by another connection, under a nickname that
\* is free, is refused.
C19_Witness ==
    \E c \in DOMAIN rooms :
        /\ Len(rooms[c].players) = 2
        /\ \E p \in Conns, n \in Nicknames :
              /\ ~IsMember(rooms[c], p)
              /\ ~NicknameTaken(rooms[c], n)
              /\ ~joinRoom(rooms, c, p, n).ok
              /\ joinRoom(rooms, c, p, n).rooms = rooms

\* C20: createRoom returns a room under a code that no live room had at the
\* call: the first code drawn that is free, every code drawn before it being
\* in use; the rooms that were live stay as they were.
C20_CreateRoomCodeIsFresh ==
    \A h \in Conns, n \in Nicknames, d \in DrawLists :
        Terminates(rooms, d) =>
            LET r == createRoom(rooms, h, n, d)
                code == r.room.roomCode
            IN  /\ code \notin DOMAIN rooms
                /\ \E i \in 1..Len(d) :
                      /\ d[i] = code
                      /\ \A j \in 1..(i - 1) : d[j] \in DOMAIN rooms
                /\ DOMAIN r.rooms = DOMAIN rooms \cup {code}
                /\ r.rooms[code] = r.room
                /\ \A c \in DOMAIN rooms : r.rooms[c] = rooms[c]

\* A room is live and a createRoom whose first draw is that room's code
\* takes the next draw.
C20_Witness ==
    /\ Cardinality(DOMAIN rooms) = 1
    /\ \E h \in Conns, n \in Nicknames, d \in DrawLists :
          /\ d[1] \in DOMAIN rooms
          /\ Terminates(rooms, d)
          /\ createRoom(rooms, h, n, d).room.roomCode = d[2]
          /\ Cardinality(DOMAIN createRoom(rooms, h, n, d).rooms) = 2

\* C21: joinRoom on a code that is not live, on a room that has two players,
\* or with a nickname a member of the room has, returns a rejection and
\* leaves the registry as it was.
C21_JoinRejectionChangesNothing ==
    \A c \in Codes, p \in Conns, n \in Nicknames :
        (\/ c \notin DOMAIN rooms
         \/ Len(rooms[c].players) >= 2
         \/ \E i \in 1..Len(rooms[c].players) : rooms[c].players[i].nickname = n)
        => LET r == joinRoom(rooms, c, p, n) IN ~r.ok /\ r.rooms = rooms

\* One room has a single player and the other code is not live: a join of
\* the room under that player's nickname and a join of the other code are
\* both refused, while a join under another nickname is accepted.
C21_Witness ==
    \E c \in DOMAIN rooms, d \in Codes \ DOMAIN rooms, p \in Conns :
        /\ Len(rooms[c].players) = 1
        /\ ~IsMember(rooms[c], p)
        /\ ~joinRoom(rooms, c, p, rooms[c].players[1].nickname).ok
        /\ \A n \in Nicknames : ~joinRoom(rooms, d, p, n).ok
        /\ \E n \in Nicknames : joinRoom(rooms, c, p, n).ok

\* C22: no two players of a room have the same nickname.
C22_NicknamesUniquePerRoom ==
    \A c \in DOMAIN rooms :
        \A i, j \in 1..Len(rooms[c].players) :
            rooms[c].players[i].nickname = rooms[c].players[j].nickname => i = j

\* A room with two players, and another room in which a nickname of the
\* first is in use as well.
C22_Witness ==
    \E c \in DOMAIN rooms, d \in DOMAIN rooms :
        /\ c # d
        /\ Len(rooms[c].players) = 2
        /\ rooms[c].players[1].nickname # rooms[c].players[2].nickname
        /\ rooms[d].players[1].nickname = rooms[c].players[2].nickname

\* C23: no live room is without players; leaveRoom removes the room when the
\* player named is its only player and keeps it, and every other room, in
\* every other case; a room leaves the registry by no other step.
C23_RoomLivesWhileOccupied ==
    /\ [](\A c \in DOMAIN rooms : Len(rooms[c].players) >= 1)
    /\ [](\A c \in DOMAIN rooms, p \in Conns :
            LET r == leaveRoom(rooms, c, p)
                others == {i \in 1..Len(rooms[c].players) :
                              rooms[c].players[i].id # p}
            IN  /\ (c \in DOMAIN r.rooms) <=> (others # {})
                /\ DOMAIN rooms \ {c} \subseteq DOMAIN r.rooms
                /\ \A d \in DOMAIN rooms \ {c} : r.rooms[d] = rooms[d])
    /\ [][\A c \in DOMAIN rooms \ DOMAIN rooms' :
            \E p \in Conns :
                /\ rooms' = leaveRoom(rooms, c, p).rooms
                /\ \A i \in 1..Len(rooms[c].players) :
                      rooms[c].players[i].id = p]_vars

\* One room is down to one player and the other has two: the first goes
\* when that player leaves it, the second stays when one of its two does.
C23_Witness ==
    \E c \in DOMAIN rooms, d \in DOMAIN rooms :
        /\ Len(rooms[c].players) = 1
        /\ Len(rooms[d].players) = 2
        /\ DOMAIN leaveRoom(rooms, c, rooms[c].players[1].id).rooms = {d}
        /\ DOMAIN leaveRoom(rooms, d, rooms[d].players[1].id).rooms = {c, d}

\* C24: when the host leaves a room in which a player remains, hostId and
\* isHost = true pass to that player (one player remains, so it is the one
\* that joined first); when another player, or a connection that is not a
\* member, leaves, hostId and the isHost flags stay as they were.
C24_HostPassesOn ==
    \A c \in DOMAIN rooms, p \in Conns :
        LET room == rooms[c]
            Stays(pl) == pl.id # p
            remaining == SelectSeq(room.players, Stays)
            r == leaveRoom(rooms, c, p)
        IN  remaining # <<>> =>
            /\ c \in DOMAIN r.rooms
            /\ Len(r.rooms[c].players) = Len(remaining)
            /\ \A i \in 1..Len(remaining) :
                  r.rooms[c].players[i].id = remaining[i].id
            /\ IF p = room.hostId
               THEN /\ Len(remaining) = 1
                    /\ r.rooms[c].hostId = remaining[1].id
                    /\ r.rooms[c].players[1].isHost
               ELSE /\ r.rooms[c].hostId = room.hostId
                    /\ \A i \in 1..Len(remaining) :
                          r.rooms[c].players[i].isHost = remaining[i].isHost

\* A room of two whose host is its first player: when the host leaves,
\* hostId passes to the second player, and when the second player leaves it
\* stays.
C24_Witness ==
    \E c \in DOMAIN rooms :
        /\ Len(rooms[c].players) = 2
        /\ rooms[c].hostId = rooms[c].players[1].id
        /\ rooms[c].players[1].isHost
        /\ leaveRoom(rooms, c, rooms[c].players[2].id).rooms[c].hostId
               = rooms[c].hostId
        /\ ~rooms[c].players[2].isHost
        /\ leaveRoom(rooms, c, rooms[c].hostId).rooms[c].hostId
               = rooms[c].players[2].id

\* C25: setPlayerReady for a member of a live room writes that player's
\* isReady and nothing else: the members, hostId, the isHost flags, the
\* status of the room and every other room stay as they were; for a code
\* that is not live or a connection that is not a member it returns a
\* rejection and changes nothing.
C25_ReadyWritesOneFlag ==
    \A c \in Codes, p \in Conns, b \in BOOLEAN :
        LET r == setPlayerReady(rooms, c, p, b) IN
        IF c \in DOMAIN rooms /\ \E i \in 1..Len(rooms[c].players) :
                                     rooms[c].players[i].id = p
        THEN /\ r.ok
             /\ DOMAIN r.rooms = DOMAIN rooms
             /\ \A d \in DOMAIN rooms \ {c} : r.rooms[d] = rooms[d]
             /\ r.rooms[c].hostId = rooms[c].hostId
             /\ r.rooms[c].status = rooms[c].status
             /\ r.rooms[c].maxPlayers = rooms[c].maxPlayers
             /\ Len(r.rooms[c].players) = Len(rooms[c].players)
             /\ \A i \in 1..Len(rooms[c].players) :
                   /\ r.rooms[c].players[i].id = rooms[c].players[i].id
                   /\ r.rooms[c].players[i].nickname = rooms[c].players[i].nickname
                   /\ r.rooms[c].players[i].isHost = rooms[c].players[i].isHost
                   /\ r.rooms[c].players[i].isReady =
                          IF rooms[c].players[i].id = p THEN b
                          ELSE rooms[c].players[i].isReady
        ELSE ~r.ok /\ r.rooms = rooms

\* In a room of two, one player has set ready and the other has not.
C25_Witness ==
    \E c \in DOMAIN rooms :
        /\ Len(rooms[c].players) = 2
        /\ rooms[c].players[2].isReady
        /\ ~rooms[c].players[1].isReady
        /\ rooms[c].status = "waiting"

\* A card without its position.
Face(card) == [id |-> card.id, type |-> card.type,
               difficulty |-> card.difficulty,
               matchingCardId |-> card.matchingCardId]

C27_ExactlyCountPairs ==
    (call.op = "generateBugSolutionPairs" /\ call.returned) =>
        Len(call.result) = call.count

\* The cards that name card c in matchingCardId.
NamedBy(c) == {d \in CardIds : game.cards[d].matchingCardId = c}

\* C28: every card of a session has exactly one partner: the two name each
\* other in matchingCardId, are of opposite type and of the same difficulty;
\* no operation on the session changes a card's partner, type or difficulty.
C28_PairingFixed ==
    /\ [](\A c \in CardIds :
            /\ NamedBy(c) = {game.cards[c].matchingCardId}
            /\ game.cards[c].matchingCardId # c
            /\ game.cards[game.cards[c].matchingCardId].type # game.cards[c].type
            /\ game.cards[game.cards[c].matchingCardId].difficulty
                   = game.cards[c].difficulty)
    /\ [][\A c \in CardIds :
            /\ game.cards'[c].matchingCardId = game.cards[c].matchingCardId
            /\ game.cards'[c].type = game.cards[c].type
            /\ game.cards'[c].difficulty = game.cards[c].difficulty]_vars

\* A session of pairs of two difficulties after a turn has ended: a pair is
\* matched and a card of the other difficulty is face up.
C28_Witness ==
    /\ game.turnNumber > 1
    /\ \E c, d \in CardIds :
          /\ game.cards[c].isMatched
          /\ ~game.cards[d].isMatched
          /\ game.cards[d].isFlipped
          /\ game.cards[c].difficulty # game.cards[d].difficulty
          /\ NamedBy(c) = {game.cards[c].matchingCardId}

\* C26: a room of two whose players are both ready has a session: status
\* playing, 12 cards, the host's turn.
C26_ReadyRoomHasSession ==
    \A c \in DOMAIN rooms :
        AllReady(rooms[c]) =>
            \E i \in 1..Len(games) :
                /\ games[i].roomCode = c
                /\ games[i].status = "playing"
                /\ games[i].cards = 2 * StartPairs
                /\ games[i].currentTurn = rooms[c].hostId

\* GameService.games with the session at g1 and another session at g2.
Sessions(other) == [id \in GameIds |-> IF id = "g1" THEN game ELSE other]

\* The states the other session is taken in: as created, and in the state
\* the session itself is in, with the same callbacks outstanding.
OtherSessions == {game, createGame(PlayerIds, [k \in 1..NumPairs |-> "easy"])}

\* The session is as it was, or as a flip, the deferred resolution at the
\* head of the queue, or a timer expiration of its own leaves it.
OwnOperation ==
    \/ game' = game
    \/ \E p \in Players, c \in CardInputs :
          game' = handleCardFlip(game, p, c).game
    \/ (timeouts # <<>> /\ game' = noMatchTimeout(game, Head(timeouts)))
    \/ \E p \in Players : game' = handleTimerExpiration(game, p).game

\* The session and its scheduled callbacks are untouched.
SessionKept == game' = game /\ timeouts' = timeouts

\* C30: a session changes only by a flip, a deferred no-match resolution or
\* a timer expiration of its own: a step that changes the room registry
\* leaves the session and its callbacks as they are, and a flip, a deferred
\* resolution or a timer expiration addressed to another session, or to an id
\* that names no session, leaves it as it is.
C30_SessionChangesByOwnOperationsOnly ==
    /\ [][OwnOperation /\ (rooms' # rooms => SessionKept)]_vars
    /\ [](\A other \in OtherSessions :
            /\ \A p \in Players, id \in {"g2", UnknownGame} :
                  /\ \A c \in CardInputs :
                        flipCardIn(Sessions(other), id, p, c)["g1"] = game
                  /\ handleTimerExpirationIn(Sessions(other), id, p)["g1"] = game
            /\ \A i \in 1..Len(timeouts) :
                  noMatchTimeoutIn(Sessions(other), "g2", timeouts[i])["g1"] = game)

\* The session is in its second turn or later with a pair matched and a
\* callback outstanding, the room holds two players, and a flip addressed to
\* another session in the same state changes that session.
C30_Witness ==
    /\ game.turnNumber > 1
    /\ timeouts # <<>>
    /\ \E c \in CardIds : game.cards[c].isMatched
    /\ ServerCode \in DOMAIN rooms
    /\ Len(rooms[ServerCode].players) = 2
    /\ \E c \in CardIds :
          flipCardIn(Sessions(game), "g2", game.currentTurn, c)["g2"] # game

\* Every live room has between one and maxPlayers players.
RoomSizesHold(rs) ==
    \A c \in DOMAIN rs :
        Len(rs[c].players) >= 1 /\ Len(rs[c].players) <= rs[c].maxPlayers

\* C31: when a client disconnects, the registry is left as by a leave of
\* every room the client was in: the client is a player of no live room
\* afterwards, a room it emptied is gone, a room it hosted has a new host, and
\* the sizes of the rooms are still within their limits.
C31_DisconnectIsLeave ==
    [][\A p \in Conns :
          (p \notin closed /\ p \in closed') =>
              /\ rooms' = LeaveAll(rooms, p, DOMAIN rooms)
              /\ \A c \in DOMAIN rooms' : ~IsMember(rooms'[c], p)
              /\ RoomSizesHold(rooms) => RoomSizesHold(rooms')]_vars

C33_NoFlipWhileMismatchPending ==
    timeouts # <<>> =>
        \A p \in Players, c \in CardInputs :
            handleCardFlip(game, p, c).action = "error"

\* C34: when both pending slots are empty and no deferred resolution is
\* outstanding, no unmatched card is face up.
C34_NoStrayFaceUpCard ==
    (/\ game.firstFlippedCard = Nil
     /\ game.secondFlippedCard = Nil
     /\ timeouts = <<>>) =>
        \A c \in CardIds : ~game.cards[c].isMatched => ~game.cards[c].isFlipped

\* C35: every matched card is face up.
C35_MatchedStaysFaceUp ==
    \A c \in CardIds : game.cards[c].isMatched => game.cards[c].isFlipped

\* The pairs, each named by its bug card, whose two cards are matched.
MatchedPairs ==
    {c \in CardIds : c % 2 = 0 /\ game.cards[c].isMatched /\ game.cards[c + 1].isMatched}

RECURSIVE PointsOf(_)
PointsOf(pairs) ==
    IF pairs = {} THEN 0
    ELSE LET c == CHOOSE c \in pairs : TRUE
         IN  TierPoints(game.cards[c].difficulty) + PointsOf(pairs \ {c})

\* C36: each pair is credited once: the matchesFound of the two players add
\* up to the number of matched pairs, their scores add up to the tier points
\* of the matched pairs, and a card is matched exactly when its partner is.
C36_EachPairCreditedOnce ==
    /\ game.players[PlayerIds[1]].matchesFound + game.players[PlayerIds[2]].matchesFound
          = Cardinality(MatchedPairs)
    /\ game.players[PlayerIds[1]].score + game.players[PlayerIds[2]].score
          = PointsOf(MatchedPairs)
    /\ \A c \in CardIds :
          game.cards[c].isMatched = game.cards[game.cards[c].matchingCardId].isMatched

\* Each player has found a pair, and the two pairs are of different tiers.
C36_Witness ==
    /\ game.players[PlayerIds[1]].matchesFound >= 1
    /\ game.players[PlayerIds[2]].matchesFound >= 1
    /\ game.players[PlayerIds[1]].score # game.players[PlayerIds[2]].score

MayStart(client, roomCode) ==
    /\ roomCode \in DOMAIN rooms
    /\ rooms[roomCode].hostId = client
    /\ Len(rooms[roomCode].players) = 2

\* C38: room:startGame stores a session exactly when the sender is the host
\* of the room and the room has two players; otherwise game:error goes to the
\* sender and no session is stored; the room is unchanged either way.
C38_StartOnlyByHostOfTwo ==
    /\ [](\A client \in Conns, roomCode \in Codes, answer \in StartAnswers :
            LET r == handleGameStart(rooms, games, client, roomCode, answer,
                         [i \in 1..(Len(FallbackPairs) - 1) |-> i])
            IN  IF MayStart(client, roomCode)
                THEN /\ Len(r.games) = Len(games) + 1
                     /\ r.games[Len(r.games)].roomCode = roomCode
                     /\ r.emit.event = "game:started"
                ELSE /\ r.games = games
                     /\ r.emit = [event |-> "game:error", to |-> client])
    /\ [][games' # games =>
             /\ rooms' = rooms
             /\ \E client \in Conns :
                   MayStart(client, games'[Len(games')].roomCode)]_vars

\* A session has been started for a room of two, and in the same state a
\* room:startGame of the other player of that room would be refused.
C38_Witness ==
    /\ games # <<>>
    /\ games[1].roomCode \in DOMAIN rooms
    /\ Len(rooms[games[1].roomCode].players) = 2
    /\ ~MayStart(rooms[games[1].roomCode].players[2].id, games[1].roomCode)

\* C39: the game:match event of a flip that matches lists the two cards of
\* that match, the first flipped and the second, and game:over follows it
\* exactly when the match finished the session.
C39_MatchEventNamesThePair ==
    \A p \in Players, c \in CardIds :
        handleCardFlip(game, p, c).action = "match" =>
            LET sent == GameGateway_handleCardFlip(game, p, c) IN
            /\ sent[1] = Event("game:match", <<game.firstFlippedCard, c>>, <<>>)
            /\ Len(sent) = 2 <=> handleCardFlip(game, p, c).game.status = "finished"
            /\ Len(sent) = 2 => sent[2].event = "game:over"

====
